---- MODULE Spec2Model ----
(***************************************************************************)
(* State-machine model of the fractal_sound p5 sketches.                   *)
(*                                                                         *)
(* Three sketches share one architecture:                                  *)
(*   "gyro"    src/unnamed/part_000  (audio + device orientation)          *)
(*   "flowing" src/unnamed/part_001  (audio, flowing shader)               *)
(*   "basic"   src/unnamed/part_002  (audio, plain Mandelbrot shader)      *)
(*                                                                         *)
(* Numbers.  The source computes in IEEE doubles (TypeScript) and GPU      *)
(* floats (GLSL).  The model computes in fixed point, rounding every       *)
(* product and quotient to the nearest representable value:                *)
(*   zoom, micLevel, sines, uniforms, shader z : units of 1/Unit           *)
(*   centerX, centerY                          : units of 1/CenterUnit     *)
(*   orientation angles                        : units of 1/GyroUnit deg   *)
(*   time                                      : whole frames (0.016 s)    *)
(*   angles given to Sin / Cos                 : milliradians              *)
(***************************************************************************)
EXTENDS Integers, Sequences, FiniteSets, TLC

\* ------------------------------------------------------------------------
\* Fixed-point arithmetic
\* ------------------------------------------------------------------------
Unit == 10^3
CenterUnit == 10^5
GyroUnit == 10^2

Abs(a) == IF a >= 0 THEN a ELSE -a

\* a / b rounded to the nearest integer (ties away from zero), b > 0
RDiv(a, b) == IF a >= 0 THEN (2 * a + b) \div (2 * b)
                        ELSE -((b - 2 * a) \div (2 * b))

\* a * (num / den)
Scale(a, num, den) == RDiv(a * num, den)

\* product of two values in units of 1/Unit, a >= 0 (split so that the
\* intermediate product stays inside TLC's 32-bit integers)
MulFix(a, b) == (a \div Unit) * b + RDiv((a % Unit) * b, Unit)

Min(a, b) == IF a <= b THEN a ELSE b
Max(a, b) == IF a >= b THEN a ELSE b

\* sin of x milliradians (x >= 0), in units of 1/Unit.  Bhaskara's rational
\* approximation on each half period, absolute error below 0.002.
Sin(x) ==
  LET pi  == 3142
      r   == x % (2 * pi)
      y   == IF r <= pi THEN r ELSE r - pi
      p   == y * (pi - y)
      den == (5 * pi * pi - 4 * p) \div 100
      v   == IF p <= 0 THEN 0 ELSE Min(Unit, RDiv(16 * p * 10, den))
  IN  IF r <= pi THEN v ELSE -v

Cos(x) == Sin(x + 1571)

\* floor of the square root of n >= 0
RECURSIVE SqrtSearch(_, _, _)
SqrtSearch(n, lo, hi) ==
  IF lo >= hi THEN lo
  ELSE LET mid == (lo + hi + 1) \div 2
       IN  IF mid * mid <= n THEN SqrtSearch(n, mid, hi)
                             ELSE SqrtSearch(n, lo, mid - 1)

Sqrt(n) == SqrtSearch(n, 0, 46340)

\* ------------------------------------------------------------------------
\* Bounds of the model
\* ------------------------------------------------------------------------
\* canvas size in pixels (window.innerWidth x window.innerHeight)
CanvasWidth == 4
CanvasHeight == 3
\* events and frames handled in one behaviour (after the opening wheel run)
MaxSteps == 4
\* frames after which the unbounded frame driver stops advancing time
MaxFrames == 3
\* longest run of same-direction wheel events that may open a behaviour
\* without counting against MaxSteps
MaxWheelRun == 150

Sketches == {"gyro", "flowing", "basic"}

\* pointer positions (x, y) delivered by the browser
Pointers == {<<0, 0>>, <<1, CanvasHeight>>, <<CanvasWidth, 0>>}
\* event.delta of a wheel event (only its sign is read)
WheelDeltas == {-100, 0, 100}
\* p.key of a key event
Keys == {"r", "R", "g", "G", "x"}

\* ------------------------------------------------------------------------
\* State
\* ------------------------------------------------------------------------
VARIABLES
  sketch,            \* which sketch file runs
  isMobile,          \* part_000:16, result of detectMobile()
  motionPermissionApi, \* DeviceOrientationEvent.requestPermission exists
  \* audio
  analyser,          \* TRUE when the AnalyserNode has been created
  dataArrayLength,   \* dataArray.length, 0 while dataArray is undefined
  micLevel,
  audioInitialized,
  audioTimer,        \* setTimeout(initAudio, 100) not fired yet
  audioPending,      \* initAudio calls awaiting getUserMedia
  micDenied,         \* a getUserMedia request has been rejected
  \* orientation
  gyroInitialized,
  gyroTimer,         \* setTimeout(initGyroscope, 500) not fired yet
  gyroPending,       \* initGyroscope calls awaiting requestPermission
  gyroAlpha, gyroBeta, gyroGamma,
  smoothGyroAlpha, smoothGyroBeta, smoothGyroGamma,
  gyroBaseAlpha, gyroBaseBeta, gyroBaseGamma,
  gyroCalibrated,
  gyroCalibrations,  \* times the baseline was taken ('Gyroscope calibrated!')
  \* view
  zoom, centerX, centerY, time,
  \* pointer
  isDragging, lastMouseX, lastMouseY, mouseX, mouseY,
  \* shader uniforms of the last rendered frame
  uZoom, uCenterX, uCenterY, uTime, uAudioLevel, uMaxIterations, uGyroRotation,
  \* one fragment of the shader: main() of fragSource
  fragC,             \* c, the point of the complex plane, <<re, im>>
  fragZ,             \* z, <<re, im>>
  fragI,             \* int i of the for loop
  iterations,        \* float iterations
  fragExit,          \* how the for loop ended, "idle" outside the shader
  \* frame driver and bookkeeping
  looping,           \* the frame driver still schedules draw
  frameError,        \* the last draw frame ended in its catch block
  frameParity,       \* p.frameCount modulo 2
  wheelReturn,       \* what the last call of mouseWheel returned
  lastEvent,         \* the handler that ran last
  steps,             \* events counted against MaxSteps so far
  wheelRun           \* signed length of the opening run of wheel events

audioVars == <<analyser, dataArrayLength, micLevel, audioInitialized, audioTimer,
               audioPending, micDenied>>
gyroVars == <<gyroInitialized, gyroTimer, gyroPending, gyroAlpha, gyroBeta,
              gyroGamma, smoothGyroAlpha, smoothGyroBeta, smoothGyroGamma,
              gyroBaseAlpha, gyroBaseBeta, gyroBaseGamma, gyroCalibrated,
              gyroCalibrations>>
viewVars == <<zoom, centerX, centerY>>
pointerVars == <<isDragging, lastMouseX, lastMouseY, mouseX, mouseY>>
uniformVars == <<uZoom, uCenterX, uCenterY, uTime, uAudioLevel,
                 uMaxIterations, uGyroRotation>>
fragVars == <<fragC, fragZ, fragI, iterations, fragExit>>
envVars == <<sketch, isMobile, motionPermissionApi>>
vars == <<envVars, audioVars, gyroVars, viewVars, time, pointerVars,
          uniformVars, fragVars, looping, frameError, frameParity,
          wheelReturn, lastEvent, steps, wheelRun>>

\* ------------------------------------------------------------------------
\* Construction: the declarations of the sketch closure followed by p.setup
\* ------------------------------------------------------------------------
ZoomOne == Unit
CenterX0 == -(CenterUnit \div 2)
CenterY0 == 0

\* the platforms a session can run on: only the gyro sketch detects mobile
Platforms ==
  {<<"gyro", FALSE, FALSE>>, <<"gyro", TRUE, FALSE>>, <<"gyro", TRUE, TRUE>>,
   <<"flowing", FALSE, FALSE>>, <<"basic", FALSE, FALSE>>}

\* the state of the sketch closure after setup, the clock and the shader apart
InitSketch ==
  /\ \E pf \in Platforms :
       /\ sketch = pf[1]
       /\ isMobile = pf[2]
       /\ motionPermissionApi = pf[3]
  /\ analyser = FALSE
  /\ dataArrayLength = 0
  /\ micLevel = 0
  /\ audioInitialized = FALSE
  /\ audioTimer = TRUE
  /\ audioPending = 0
  /\ micDenied = FALSE
  /\ gyroInitialized = FALSE
  /\ gyroTimer = isMobile
  /\ gyroPending = 0
  /\ gyroAlpha = 0 /\ gyroBeta = 0 /\ gyroGamma = 0
  /\ smoothGyroAlpha = 0 /\ smoothGyroBeta = 0 /\ smoothGyroGamma = 0
  /\ gyroBaseAlpha = 0 /\ gyroBaseBeta = 0 /\ gyroBaseGamma = 0
  /\ gyroCalibrated = FALSE
  /\ gyroCalibrations = 0
  /\ zoom = ZoomOne
  /\ centerX = CenterX0
  /\ centerY = CenterY0
  /\ isDragging = FALSE
  /\ lastMouseX = 0 /\ lastMouseY = 0
  /\ mouseX = 0 /\ mouseY = 0
  /\ uZoom = 0 /\ uCenterX = 0 /\ uCenterY = 0
  /\ uAudioLevel = 0 /\ uGyroRotation = 0
  /\ looping = TRUE
  /\ frameError = FALSE
  /\ frameParity = 0
  /\ wheelReturn = "none"
  /\ lastEvent = "setup"
  /\ steps = 0
  /\ wheelRun = 0

\* no frame drawn yet, no fragment shaded
Init ==
  /\ InitSketch
  /\ time = 0
  /\ uTime = 0 /\ uMaxIterations = 0
  /\ fragC = <<0, 0>> /\ fragZ = <<0, 0>> /\ fragI = 0
  /\ iterations = 0 /\ fragExit = "idle"

\* ------------------------------------------------------------------------
\* Interaction controller
\* ------------------------------------------------------------------------
ZoomMin == Unit \div 10
ZoomMax == 1000 * Unit

\* percent by which one wheel event multiplies zoom
WheelFactor(sk, delta) ==
  IF sk = "basic" THEN (IF delta > 0 THEN 90 ELSE 110)
                  ELSE (IF delta > 0 THEN 95 ELSE 105)

\* mutant: the wheel handler without its clamp
WheelZoomUnclamped(sk, z, delta) == Scale(z, WheelFactor(sk, delta), 100)

\* zoom *= zoomFactor; zoom = Math.max(0.1, Math.min(zoom, 1000))
WheelZoom(sk, z, delta) ==
  Max(ZoomMin, Min(Scale(z, WheelFactor(sk, delta), 100), ZoomMax))

\* lengths of the opening wheel run after which other events are explored
WheelRuns == {0, MaxWheelRun \div 7, MaxWheelRun}

\* Bookkeeping of the bounds.  A behaviour may open with a run of wheel events
\* in one direction (at most MaxWheelRun of them); every other event and
\* every frame counts against MaxSteps, and is explored after opening runs of
\* the lengths in WheelRuns.
Handled(name) ==
  /\ steps < MaxSteps
  /\ steps > 0 \/ Abs(wheelRun) \in WheelRuns
  /\ steps' = steps + 1
  /\ lastEvent' = name
  /\ UNCHANGED <<wheelRun, fragVars>>

\* does a wheel event of this delta extend the opening run?
ExtendsRun(delta) ==
  /\ steps = 0
  /\ lastEvent \in {"setup", "mouseWheel"}
  /\ Abs(wheelRun) < MaxWheelRun
  /\ delta # 0
  /\ (delta > 0 => wheelRun >= 0) /\ (delta < 0 => wheelRun <= 0)

\* initAudio up to its await: one more getUserMedia request in flight
InitAudioCall(n) == n + 1

\* mousePressed: does this pointer-down start a drag?
PressStartsDrag ==
  IF sketch = "gyro" THEN ~isMobile ELSE audioInitialized

\* mousePressed: does this pointer-down call initGyroscope()?
PressCallsInitGyro == sketch = "gyro" /\ isMobile /\ ~gyroInitialized

\* p.mousePressed, the pointer at (x, y)
MousePressed(x, y) ==
  /\ Handled("mousePressed")
  /\ mouseX' = x /\ mouseY' = y
  /\ audioPending' = IF ~audioInitialized THEN InitAudioCall(audioPending)
                                          ELSE audioPending
  /\ IF PressCallsInitGyro
       THEN IF motionPermissionApi
              THEN /\ gyroPending' = gyroPending + 1
                   /\ UNCHANGED gyroInitialized
              ELSE /\ gyroInitialized' = TRUE
                   /\ UNCHANGED gyroPending
       ELSE UNCHANGED <<gyroInitialized, gyroPending>>
  /\ IF PressStartsDrag
       THEN /\ isDragging' = TRUE
            /\ lastMouseX' = x
            /\ lastMouseY' = y
       ELSE UNCHANGED <<isDragging, lastMouseX, lastMouseY>>
  /\ UNCHANGED <<envVars, wheelReturn, analyser, dataArrayLength, micLevel, audioInitialized,
                 audioTimer, micDenied, gyroTimer, gyroAlpha, gyroBeta,
                 gyroGamma, smoothGyroAlpha, smoothGyroBeta, smoothGyroGamma,
                 gyroBaseAlpha, gyroBaseBeta, gyroBaseGamma, gyroCalibrated,
                 gyroCalibrations,
                 viewVars, time, uniformVars, looping, frameError, frameParity>>

\* p.mouseReleased
MouseReleased ==
  /\ Handled("mouseReleased")
  /\ isDragging' = FALSE
  /\ UNCHANGED <<envVars, wheelReturn, audioVars, gyroVars, viewVars, time, lastMouseX,
                 lastMouseY, mouseX, mouseY, uniformVars, looping,
                 frameError, frameParity>>

\* mouseDragged: the guard of the pan
DragGuard == isDragging /\ (sketch = "gyro" => ~isMobile)

\* dx = (p.mouseX - lastMouseX) / p.width, in units of 1/CenterUnit
DragFraction(now, last, size) == RDiv((now - last) * CenterUnit, size)

\* dx / zoom, in units of 1/CenterUnit
DragShift(frac, z) == RDiv(frac * Unit, z)

\* centerX -= dx / zoom
DragCenterX(cx, x, lastX, z) ==
  cx - DragShift(DragFraction(x, lastX, CanvasWidth), z)

\* mutant: the vertical pan with the sign of the horizontal one
DragCenterYInverted(cy, y, lastY, z) ==
  cy - DragShift(DragFraction(y, lastY, CanvasHeight), z)

\* centerY += dy / zoom
DragCenterY(cy, y, lastY, z) ==
  cy + DragShift(DragFraction(y, lastY, CanvasHeight), z)

\* p.mouseDragged, the pointer moved to (x, y)
MouseDragged(x, y) ==
  /\ Handled("mouseDragged")
  /\ mouseX' = x /\ mouseY' = y
  /\ IF DragGuard
       THEN /\ centerX' = DragCenterX(centerX, x, lastMouseX, zoom)
            /\ centerY' = DragCenterY(centerY, y, lastMouseY, zoom)
            /\ lastMouseX' = x
            /\ lastMouseY' = y
       ELSE UNCHANGED <<centerX, centerY, lastMouseX, lastMouseY>>
  /\ UNCHANGED <<envVars, wheelReturn, audioVars, gyroVars, zoom, time, isDragging, 
                 uniformVars, looping, frameError, frameParity>>

\* mutant: the wheel zooms on every device
WheelGuardOpen == TRUE

\* mouseWheel: the guard of the zoom (the gyro sketch ignores wheel events on
\* mobile)
WheelGuard == sketch = "gyro" => ~isMobile

\* what mouseWheel returns: false inside its guard, nothing after it
WheelReturn(guard) == IF guard THEN "false" ELSE "undefined"

\* p.mouseWheel
MouseWheel(delta) ==
  /\ IF ExtendsRun(delta)
       THEN /\ wheelRun' = IF delta > 0 THEN wheelRun + 1 ELSE wheelRun - 1
            /\ lastEvent' = "mouseWheel"
            /\ UNCHANGED <<steps, fragVars>>
       ELSE Handled("mouseWheel")
  /\ zoom' = IF WheelGuard THEN WheelZoom(sketch, zoom, delta) ELSE zoom
  /\ wheelReturn' = WheelReturn(WheelGuard)
  /\ UNCHANGED <<envVars, audioVars, gyroVars, centerX, centerY, time,
                 pointerVars, uniformVars, looping, frameError, frameParity>>

\* mutant: only the lower-case key resets
IsResetKeyLowerOnly(k) == k = "r"

\* p.key === 'r' || p.key === 'R'
IsResetKey(k) == k = "r" \/ k = "R"

\* mutant: only the lower-case key recalibrates
IsRecalibrateKeyLowerOnly(k) == k = "g"

\* p.key === 'g' || p.key === 'G'
IsRecalibrateKey(k) == k = "g" \/ k = "G"

\* keyPressed, 'r': the view after the reset
ResetView == <<ZoomOne, CenterX0, CenterY0>>

\* keyPressed, 'g': the calibration flag after the key
Recalibrated(k, calibrated) ==
  IF sketch = "gyro" /\ IsRecalibrateKey(k) /\ isMobile /\ gyroInitialized
    THEN FALSE ELSE calibrated

\* the name under which a key event is recorded
KeyEvent(k) == "keyPressed " \o k

\* p.keyPressed with p.key = k
KeyPressed(k) ==
  /\ Handled(KeyEvent(k))
  /\ IF IsResetKey(k)
       THEN /\ zoom' = ResetView[1]
            /\ centerX' = ResetView[2]
            /\ centerY' = ResetView[3]
       ELSE UNCHANGED viewVars
  /\ gyroCalibrated' = Recalibrated(k, gyroCalibrated)
  /\ UNCHANGED <<envVars, wheelReturn, audioVars, gyroInitialized, gyroTimer,
                 gyroPending, gyroCalibrations,
                 gyroAlpha, gyroBeta, gyroGamma, smoothGyroAlpha,
                 smoothGyroBeta, smoothGyroGamma, gyroBaseAlpha, gyroBaseBeta,
                 gyroBaseGamma, time, pointerVars, uniformVars, looping,
                 frameError, frameParity>>

\* ------------------------------------------------------------------------
\* Audio sampler
\* ------------------------------------------------------------------------
FftSize == 256
\* mutant: one bin per sample of the transform window
FrequencyBinCountFull == FftSize

\* analyser.frequencyBinCount
FrequencyBinCount == FftSize \div 2
ByteMax == 255

\* what analyser.getByteFrequencyData can write: every bin is a byte
Spectrum(kind) ==
  [i \in 1..FrequencyBinCount |->
     CASE kind = "silent" -> 0
       [] kind = "loud"   -> ByteMax
       [] kind = "bass"   -> IF i <= FrequencyBinCount \div 4 THEN 200 ELSE 10
       [] OTHER           -> (2 * i - 1) % (ByteMax + 1)]

SpectrumKinds == {"silent", "loud", "bass", "ramp"}

\* the setTimeout(initAudio, 100) of setup fires
AudioTimerFires ==
  /\ audioTimer
  /\ Handled("audioTimer")
  /\ audioTimer' = FALSE
  /\ audioPending' = InitAudioCall(audioPending)
  /\ UNCHANGED <<envVars, wheelReturn, analyser, dataArrayLength, micLevel, audioInitialized,
                 micDenied, gyroVars, viewVars, time, pointerVars, 
                 uniformVars, looping, frameError, frameParity>>

\* mutant: the flag follows the last answer of getUserMedia
AudioReadyLastAnswer(granted, was) == granted

\* mutant: the flag is set whatever getUserMedia answered
AudioReadyAnyAnswer(granted, was) == TRUE

\* initAudio after its await, getUserMedia resolved: the value of
\* audioInitialized when the try block ends
AudioReady(granted, was) == IF granted THEN TRUE ELSE was

\* initAudio resumes with a stream: the pipeline is built
MicGranted ==
  /\ audioPending > 0
  /\ Handled("micGranted")
  /\ audioPending' = audioPending - 1
  /\ analyser' = TRUE
  /\ dataArrayLength' = FrequencyBinCount
  /\ audioInitialized' = AudioReady(TRUE, audioInitialized)
  /\ UNCHANGED <<envVars, wheelReturn, micLevel, audioTimer, micDenied, gyroVars, viewVars,
                 time, pointerVars, uniformVars, looping, frameError, frameParity>>

\* initAudio resumes in its catch block: getUserMedia rejected
MicDenied ==
  /\ audioPending > 0
  /\ Handled("micDenied")
  /\ audioPending' = audioPending - 1
  /\ micDenied' = TRUE
  /\ audioInitialized' = AudioReady(FALSE, audioInitialized)
  /\ UNCHANGED <<envVars, wheelReturn, analyser, dataArrayLength, micLevel, audioTimer, gyroVars,
                 viewVars, time, pointerVars, uniformVars, looping,
                 frameError, frameParity>>

RECURSIVE SumBins(_, _, _)
\* the for loop of getAudioData: sum of data[lo..hi] (summed by halves to
\* keep the evaluation shallow)
SumBins(data, lo, hi) ==
  IF lo > hi THEN 0
  ELSE IF lo = hi THEN data[lo]
  ELSE LET mid == (lo + hi) \div 2
       IN  SumBins(data, lo, mid) + SumBins(data, mid + 1, hi)

\* sum / (dataArray.length * 255)
NewLevel(data) ==
  RDiv(SumBins(data, 1, Len(data)) * Unit, Len(data) * ByteMax)

\* newLevel for each spectrum the analyser can deliver
BinLevels == [kind \in SpectrumKinds |-> NewLevel(Spectrum(kind))]

\* mutant: smoothing weights that sum to more than one
SmoothedLevelHeavy(sk, level, newLevel) ==
  IF sk = "basic" THEN newLevel
  ELSE Scale(level, 8, 10) + Scale(newLevel, 3, 10)

\* the level getAudioData stores: micLevel * 0.8 + newLevel * 0.2 (the basic
\* sketch stores newLevel unsmoothed)
SmoothedLevel(sk, level, newLevel) ==
  IF sk = "basic" THEN newLevel
  ELSE Scale(level, 8, 10) + Scale(newLevel, 2, 10)

\* getAudioData samples only behind this guard
SamplerLive == audioInitialized /\ analyser

\* ------------------------------------------------------------------------
\* Orientation sampler (gyro sketch)
\* ------------------------------------------------------------------------
Null == -(10^6)
Deg(d) == d * GyroUnit

\* (alpha, beta, gamma) of a deviceorientation event
OrientationEvents ==
  {<<Deg(0), Deg(0), Deg(0)>>, <<Deg(90), Deg(40), Deg(-30)>>,
   <<Deg(350), Deg(-20), Deg(60)>>, <<Null, Deg(40), Deg(-30)>>}

\* initGyroscope called from the timer or from a pointer-down on mobile
GyroTimerFires ==
  /\ gyroTimer
  /\ Handled("gyroTimer")
  /\ gyroTimer' = FALSE
  /\ IF motionPermissionApi
       THEN /\ gyroPending' = gyroPending + 1
            /\ UNCHANGED gyroInitialized
       ELSE /\ gyroInitialized' = TRUE
            /\ UNCHANGED gyroPending
  /\ UNCHANGED <<envVars, wheelReturn, audioVars, gyroAlpha, gyroBeta, gyroGamma,
                 smoothGyroAlpha, smoothGyroBeta, smoothGyroGamma,
                 gyroBaseAlpha, gyroBaseBeta, gyroBaseGamma, gyroCalibrated,
                 gyroCalibrations,
                 viewVars, time, pointerVars, uniformVars, looping,
                 frameError, frameParity>>

\* initGyroscope resumes, requestPermission answered (or rejected)
GyroPermission(granted) ==
  /\ gyroPending > 0
  /\ Handled(IF granted THEN "gyroGranted" ELSE "gyroDenied")
  /\ gyroPending' = gyroPending - 1
  /\ gyroInitialized' = IF granted THEN TRUE ELSE gyroInitialized
  /\ UNCHANGED <<envVars, wheelReturn, audioVars, gyroTimer, gyroAlpha, gyroBeta,
                 gyroGamma, smoothGyroAlpha, smoothGyroBeta, smoothGyroGamma,
                 gyroBaseAlpha, gyroBaseBeta, gyroBaseGamma, gyroCalibrated,
                 gyroCalibrations,
                 viewVars, time, pointerVars, uniformVars, looping,
                 frameError, frameParity>>

\* mutant: the smoothing of the raw angle, the baseline forgotten
SmoothAngleAbsolute(smooth, raw, base) == RDiv(smooth * 9 + raw, 10)

\* smooth * (1 - 0.1) + (raw - base) * 0.1
SmoothAngle(smooth, raw, base) == RDiv(smooth * 9 + (raw - base), 10)

\* event.alpha != null && event.beta != null && event.gamma != null
HasAngles(ev) == ev[1] # Null /\ ev[2] # Null /\ ev[3] # Null

\* the name under which an orientation event is recorded
OrientationEvent(ev) ==
  IF HasAngles(ev) THEN "deviceorientation" ELSE "deviceorientation (null)"

\* handleGyroData(event)
HandleGyroData(ev) ==
  /\ gyroInitialized
  /\ Handled(OrientationEvent(ev))
  /\ IF HasAngles(ev)
       THEN LET baseA == IF gyroCalibrated THEN gyroBaseAlpha ELSE ev[1]
                baseB == IF gyroCalibrated THEN gyroBaseBeta ELSE ev[2]
                baseG == IF gyroCalibrated THEN gyroBaseGamma ELSE ev[3]
            IN  /\ gyroAlpha' = ev[1]
                /\ gyroBeta' = ev[2]
                /\ gyroGamma' = ev[3]
                /\ gyroBaseAlpha' = baseA
                /\ gyroBaseBeta' = baseB
                /\ gyroBaseGamma' = baseG
                /\ gyroCalibrated' = TRUE
                /\ gyroCalibrations' = IF gyroCalibrated
                                         THEN gyroCalibrations
                                         ELSE gyroCalibrations + 1
                /\ smoothGyroAlpha' = SmoothAngle(smoothGyroAlpha, ev[1], baseA)
                /\ smoothGyroBeta' = SmoothAngle(smoothGyroBeta, ev[2], baseB)
                /\ smoothGyroGamma' = SmoothAngle(smoothGyroGamma, ev[3], baseG)
       ELSE UNCHANGED <<gyroAlpha, gyroBeta, gyroGamma, gyroBaseAlpha,
                        gyroBaseBeta, gyroBaseGamma, gyroCalibrated,
                        gyroCalibrations, smoothGyroAlpha, smoothGyroBeta,
                        smoothGyroGamma>>
  /\ UNCHANGED <<envVars, wheelReturn, audioVars, gyroInitialized, gyroTimer, gyroPending,
                 viewVars, time, pointerVars, uniformVars, looping,
                 frameError, frameParity>>

\* mutant: the guard without its calibration test
GyroIdleUninitialized(initialized, calibrated) == ~initialized

\* the guard of getGyroInfluence: no influence behind it
GyroIdle(initialized, calibrated) == ~initialized \/ ~calibrated

\* getGyroInfluence(): offsets of the center in units of 1/CenterUnit, the
\* rotation in milliradians, the zoom factor in units of 1/Unit
GetGyroInfluence ==
  IF GyroIdle(gyroInitialized, gyroCalibrated)
    THEN [centerOffsetX |-> 0, centerOffsetY |-> 0, rotationOffset |-> 0,
          zoomOffset |-> Unit]
    ELSE LET perDeg == (2 * CenterUnit) \div 1000
             tiltMagnitude == Sqrt(smoothGyroBeta * smoothGyroBeta
                                   + smoothGyroGamma * smoothGyroGamma)
         IN  [centerOffsetX |-> RDiv(smoothGyroGamma * perDeg, GyroUnit),
              centerOffsetY |-> RDiv(smoothGyroBeta * perDeg, GyroUnit),
              rotationOffset |-> RDiv(smoothGyroAlpha * 10, GyroUnit),
              zoomOffset |-> Unit + Scale(Sin(RDiv(tiltMagnitude * 10, GyroUnit)),
                                          1, 10)]

\* ------------------------------------------------------------------------
\* Frame driver and parameter mapper: p.draw
\* ------------------------------------------------------------------------
\* time += 0.016: milliseconds per frame
FrameMs == 16

\* (time * k) in milliradians, time in frames, k given in thousandths
TimeAngle(t, kMilli) == RDiv(t * FrameMs * kMilli, 1000)

\* 1.0 + Math.sin(time * 0.3) * 0.2 (absent from the basic sketch)
TimeVaryingZoom(sk, t) ==
  IF sk = "basic" THEN Unit ELSE Unit + Scale(Sin(TimeAngle(t, 300)), 2, 10)

\* audioInitialized ? 1 + micLevel * gain : 1
AudioZoom(sk, initialized, level) ==
  IF initialized
    THEN Unit + (IF sk = "basic" THEN level * 3 ELSE Scale(level, 15, 10))
    ELSE Unit

\* the fixed iteration count used without audio
FallbackIterations(sk) == IF sk = "basic" THEN 100 * Unit ELSE 120 * Unit

\* mutant: the audio formula used whether or not audio is initialized
AudioIterationsAlways(sk, initialized, level) ==
  IF sk = "basic" THEN 80 * Unit + level * 120 ELSE 100 * Unit + level * 50

\* mutant: twice the gain on the level
AudioIterationsDoubleGain(sk, initialized, level) ==
  IF initialized
    THEN (IF sk = "basic" THEN 80 * Unit + level * 240
                          ELSE 100 * Unit + level * 100)
    ELSE FallbackIterations(sk)

\* audioInitialized ? base + micLevel * gain : fallback
AudioIterations(sk, initialized, level) ==
  IF initialized
    THEN (IF sk = "basic" THEN 80 * Unit + level * 120
                          ELSE 100 * Unit + level * 50)
    ELSE FallbackIterations(sk)

\* Math.sin(time * 0.1) * centerDrift and Math.cos(time * 0.13) * centerDrift
DriftX(t) == RDiv(Sin(TimeAngle(t, 100)) * (CenterUnit \div 10000), Unit)
DriftY(t) == RDiv(Cos(TimeAngle(t, 130)) * (CenterUnit \div 10000), Unit)

\* centerX as draw leaves it
DrawCenterX(sk, cx, t, gyro) ==
  CASE sk = "gyro"    -> CenterX0 + DriftX(t) + gyro.centerOffsetX
    [] sk = "flowing" -> cx + DriftX(t)
    [] OTHER          -> cx

\* centerY as draw leaves it
DrawCenterY(sk, cy, t, gyro) ==
  CASE sk = "gyro"    -> CenterY0 + DriftY(t) + gyro.centerOffsetY
    [] sk = "flowing" -> cy + DriftY(t)
    [] OTHER          -> cy

\* the value given to setUniform('uZoom', ...)
ZoomUniform(sk, z, t, initialized, level, gyro) ==
  MulFix(MulFix(MulFix(z, TimeVaryingZoom(sk, t)),
                AudioZoom(sk, initialized, level)),
         IF sk = "gyro" THEN gyro.zoomOffset ELSE Unit)

\* where a frame can throw: nowhere, in getByteFrequencyData, in p.shader
\* (before any uniform is set), in the overlay (after all of them)
ThrowPoints == {"none", "sample", "render", "overlay"}

\* mutant: an error in a frame stops the frame driver
AfterCatchStops(alive) == FALSE

\* the catch block of draw: the error is logged and the frame driver goes on
AfterCatch(alive) == alive

\* is a getUserMedia or requestPermission call awaited?
Requesting == audioPending > 0 \/ gyroPending > 0

\* mutant: no frame while a permission request is awaited
DrawRunsWhenSettled(alive, pending) == alive /\ pending = 0

\* is draw called?  initAudio and initGyroscope are async: they return to the
\* event loop at their await, so the frame driver calls draw whatever number
\* of permission requests is pending
DrawRuns(alive, pending) == alive

\* the body of p.draw, the analyser delivering `kind`, the frame throwing at
\* `throwAt`, time advancing to `t`
Frame(kind, throwAt, t) ==
  /\ DrawRuns(looping, audioPending + gyroPending)
  /\ frameError' = (throwAt # "none")
  /\ frameParity' = 1 - frameParity
  /\ looping' = IF throwAt # "none" THEN AfterCatch(looping) ELSE looping
  /\ IF throwAt = "sample"
       THEN /\ SamplerLive
            /\ UNCHANGED <<micLevel, time, viewVars, uniformVars>>
       ELSE LET level == IF SamplerLive
                           THEN SmoothedLevel(sketch, micLevel, BinLevels[kind])
                           ELSE micLevel
                gyro  == GetGyroInfluence
                cx    == DrawCenterX(sketch, centerX, t, gyro)
                cy    == DrawCenterY(sketch, centerY, t, gyro)
            IN  /\ micLevel' = level
                /\ time' = t
                /\ centerX' = cx
                /\ centerY' = cy
                /\ UNCHANGED zoom
                /\ IF throwAt = "render"
                     THEN UNCHANGED uniformVars
                     ELSE /\ uZoom' = ZoomUniform(sketch, zoom, t,
                                                  audioInitialized, level, gyro)
                          /\ uCenterX' = cx
                          /\ uCenterY' = cy
                          /\ uTime' = t
                          /\ uAudioLevel' = level
                          /\ uMaxIterations' =
                               AudioIterations(sketch, audioInitialized, level)
                          /\ uGyroRotation' = gyro.rotationOffset
  /\ UNCHANGED <<envVars, wheelReturn, analyser, dataArrayLength, audioInitialized,
                 audioTimer, audioPending, micDenied, gyroVars, pointerVars>>

\* p.draw called by the frame driver: time += 0.016
Draw(kind, throwAt) ==
  /\ Handled("draw")
  /\ Frame(kind, throwAt, time + 1)

\* p.draw called by the frame driver in a session of any length: the frames
\* are not counted against MaxSteps, and the model's clock stops at MaxFrames
Tick(kind, throwAt) ==
  /\ lastEvent' = "draw"
  /\ UNCHANGED <<steps, wheelRun, fragVars>>
  /\ Frame(kind, throwAt, Min(time + 1, MaxFrames))

\* ------------------------------------------------------------------------
\* Fragment shader: the escape-time loop of main() for one fragment
\* ------------------------------------------------------------------------
\* for(int i = 0; i < 200; i++)
LoopLimit == 200

\* the points c a fragment can stand for
FragPoints ==
  {<<-(Unit \div 2), 0>>, <<2 * Unit, 2 * Unit>>, <<0, 0>>,
   <<(3 * Unit) \div 10, Unit \div 2>>}

\* uTime in frames: the start, the largest and the smallest escape radius
\* (sin(0.3 t) = 1 at 5.24 s, -1 at 15.71 s), and a time in between
FragTimes == {0, 327, 982, 1500}

\* values draw gives to uMaxIterations: base + micLevel * gain, or the fallback
FragIterations(sk) ==
  IF sk = "basic"
    THEN {80 * Unit, 100 * Unit, 140 * Unit + 400, 200 * Unit}
    ELSE {100 * Unit, 120 * Unit, 127 * Unit + 500, 150 * Unit}

\* the state at the head of the loop, for any fragment of any frame
InitFrag ==
  /\ InitSketch
  /\ time \in FragTimes
  /\ uTime = time
  /\ uMaxIterations \in FragIterations(sketch)
  /\ fragC \in FragPoints
  /\ fragZ = <<0, 0>>
  /\ fragI = 0
  /\ iterations = 0
  /\ fragExit = "running"

\* mutant: the escape radius without its constant term
EscapeRadiusSwingOnly(sk, t) ==
  IF sk = "basic" THEN 0 ELSE Sin(TimeAngle(t, 300))

\* float escapeRadius = 4.0 + sin(uTime * 0.3) * 1.0 (4.0 in the basic sketch)
EscapeRadius(sk, t) ==
  IF sk = "basic" THEN 4 * Unit ELSE 4 * Unit + Sin(TimeAngle(t, 300))

\* float variation = sin(uTime * 0.7 + float(i) * 0.1) * 0.01
Variation(sk, t, i) ==
  IF sk = "basic" THEN 0 ELSE Scale(Sin(TimeAngle(t, 700) + i * 100), 1, 100)

\* dot(z, z)
Dot(z) == RDiv(z[1] * z[1] + z[2] * z[2], Unit)

\* mutant: the update without its + c
NextZWithoutC(sk, z, c, t, i) ==
  <<RDiv(z[1] * z[1] - z[2] * z[2], Unit) + Variation(sk, t, i),
    RDiv(2 * z[1] * z[2], Unit)>>

\* z = vec2(z.x * z.x - z.y * z.y + variation, 2.0 * z.x * z.y) + c
NextZ(sk, z, c, t, i) ==
  <<RDiv(z[1] * z[1] - z[2] * z[2], Unit) + Variation(sk, t, i) + c[1],
    RDiv(2 * z[1] * z[2], Unit) + c[2]>>

\* one pass through the for loop: its condition, the escape test, the update
\* and the iteration-count test
FragStep ==
  /\ fragExit = "running"
  /\ IF fragI >= LoopLimit
       THEN /\ fragExit' = "exhausted"
            /\ UNCHANGED <<fragZ, fragI, iterations>>
       ELSE IF Dot(fragZ) > EscapeRadius(sketch, uTime)
         THEN /\ fragExit' = "escaped"
              /\ UNCHANGED <<fragZ, fragI, iterations>>
         ELSE /\ fragZ' = NextZ(sketch, fragZ, fragC, uTime, fragI)
              /\ iterations' = iterations + Unit
              /\ IF iterations' >= uMaxIterations
                   THEN fragExit' = "maxed" /\ UNCHANGED fragI
                   ELSE fragI' = fragI + 1 /\ UNCHANGED fragExit
  /\ UNCHANGED <<envVars, wheelReturn, audioVars, gyroVars, viewVars, time, pointerVars,
                 uniformVars, fragC, looping, frameError, frameParity, lastEvent, steps,
                 wheelRun>>

\* the binary digits of log2(m) after the point, 1 <= m < 2, k of them
RECURSIVE Log2Frac(_, _, _)
Log2Frac(m, w, k) ==
  IF k = 0 THEN 0
  ELSE LET sq == (m * m) \div Unit
       IN  IF sq >= 2 * Unit THEN w + Log2Frac(sq \div 2, w \div 2, k - 1)
                             ELSE Log2Frac(sq, w \div 2, k - 1)

\* log2(x), x > 0
Log2(x) ==
  LET pos(y) == LET e == CHOOSE n \in 0..20 :
                           2^n * Unit <= y /\ y < 2^(n + 1) * Unit
                IN  e * Unit + Log2Frac(y \div 2^e, Unit \div 2, 10)
  IN  IF x >= Unit THEN pos(x) ELSE -pos(RDiv(Unit * Unit, x))

\* length(z)
Length(z) == Sqrt(z[1] * z[1] + z[2] * z[2])

\* is log2(log2(zr)) defined?
SmoothDefined(z) == Length(z) > Unit /\ Log2(Length(z)) > 0

\* iterations += 1.0 - log2(log2(zr))
SmoothIterations(n, z) == n + Unit - Log2(Log2(Length(z)))

\* after the loop: the smoothing of the iteration count (absent from the
\* basic sketch) and the test iterations >= uMaxIterations that colours the
\* fragment as inside the set.  A log2 of a value that is not positive is
\* undefined in GLSL: the count is then unknown and either colouring can come
\* out.
FragClassify ==
  /\ fragExit \in {"escaped", "maxed", "exhausted"}
  /\ IF sketch = "basic" \/ iterations >= uMaxIterations
       THEN /\ UNCHANGED iterations
            /\ fragExit' = IF iterations >= uMaxIterations THEN "inside"
                                                           ELSE "outside"
       ELSE IF SmoothDefined(fragZ)
         THEN /\ iterations' = SmoothIterations(iterations, fragZ)
              /\ fragExit' = IF iterations' >= uMaxIterations THEN "inside"
                                                              ELSE "outside"
         ELSE /\ iterations' = Null
              /\ fragExit' \in {"inside", "outside"}
  /\ UNCHANGED <<envVars, wheelReturn, audioVars, gyroVars, viewVars, time, pointerVars,
                 uniformVars, fragC, fragZ, fragI, looping, frameError, frameParity,
                 lastEvent, steps, wheelRun>>

NextFrag == FragStep \/ FragClassify

SpecFrag == InitFrag /\ [][NextFrag]_vars

\* ------------------------------------------------------------------------
\* The event loop
\* ------------------------------------------------------------------------
PointerEvents ==
  \/ \E pt \in Pointers : MousePressed(pt[1], pt[2])
  \/ MouseReleased
  \/ \E pt \in Pointers : MouseDragged(pt[1], pt[2])

ViewEvents ==
  \/ PointerEvents
  \/ \E delta \in WheelDeltas : MouseWheel(delta)
  \/ \E k \in Keys : KeyPressed(k)

AudioEvents ==
  \/ AudioTimerFires
  \/ MicGranted
  \/ MicDenied

GyroEvents ==
  \/ GyroTimerFires
  \/ \E granted \in BOOLEAN : GyroPermission(granted)
  \/ \E ev \in OrientationEvents : HandleGyroData(ev)

Frames == \E kind \in SpectrumKinds, throwAt \in ThrowPoints : Draw(kind, throwAt)

Next == ViewEvents \/ AudioEvents \/ GyroEvents \/ Frames

Spec == Init /\ [][Next]_vars

\* Sessions of any number of frames are explored for the sketches whose draw
\* derives the view from the clock (gyro) or leaves it alone (basic); the
\* flowing sketch adds the drift to center in every frame, so that its view
\* takes a new value in every frame of a session.
InitLong == Init /\ sketch # "flowing"

\* A session of any number of frames, each of which may throw anywhere: the
\* frame driver with the audio permission flow, the microphone in a loud
\* room.  The browser calls draw again for as long as the sketch loops, hence
\* the weak fairness of the frames.
LoopFrames == \E throwAt \in ThrowPoints : Tick("loud", throwAt)

NextLive == AudioEvents \/ LoopFrames

SpecLive == InitLong /\ [][NextLive]_vars /\ WF_vars(LoopFrames)

\* A session of any number of frames with both permission flows, the
\* requests answered at any time or never, no frame failing.
SoundFrames == Tick("loud", "none")

NextAsync ==
  \/ AudioEvents
  \/ GyroTimerFires
  \/ \E granted \in BOOLEAN : GyroPermission(granted)
  \/ SoundFrames

SpecAsync == InitLong /\ [][NextAsync]_vars /\ WF_vars(SoundFrames)

\* A session of any number of frames, the analyser delivering any of the
\* spectra: the audio sampler under the frame driver.
AudioFrames ==
  \E kind \in SpectrumKinds, throwAt \in {"none", "sample"} : Tick(kind, throwAt)

NextAudio == AudioEvents \/ AudioFrames

SpecAudio == InitLong /\ [][NextAudio]_vars

\* A session in a loud room followed by the shading of one fragment of its
\* last frame: the frames set the uniforms, the fragment shader then runs its
\* loop on them for one point.  The uniforms do not change while the shader
\* runs.  The flowing sketch, whose view never repeats, has its frames counted.
ShadeFrames ==
  IF sketch = "flowing" THEN Draw("loud", "none") ELSE Tick("loud", "none")

\* main() starts for the fragment that stands for c, with the uniforms of the
\* frame just drawn
FragStart(c) ==
  /\ lastEvent = "draw" /\ ~frameError
  /\ fragC' = c
  /\ fragZ' = <<0, 0>>
  /\ fragI' = 0
  /\ iterations' = 0
  /\ fragExit' = "running"
  /\ UNCHANGED <<envVars, wheelReturn, audioVars, gyroVars, viewVars, time,
                 pointerVars, uniformVars, looping, frameError, frameParity,
                 lastEvent, steps, wheelRun>>

NextShade ==
  \/ fragExit = "idle" /\ AudioTimerFires
  \/ fragExit = "idle" /\ MicGranted
  \/ fragExit = "idle" /\ ShadeFrames
  \/ fragExit = "idle" /\ \E c \in FragPoints : FragStart(c)
  \/ FragStep
  \/ FragClassify

SpecShade == Init /\ [][NextShade]_vars

\* ========================================================================
\* Claims
\* ========================================================================

\* C1: in every reachable state, after any interleaving of wheel events,
\* resets, drags and frames, view.zoom lies in [0.1, 1000].
ZoomInRange == zoom >= Unit \div 10 /\ zoom <= 1000 * Unit

\* C1 witness: a wheel event counted after the opening run has left zoom on
\* the upper clamp.
ZoomClampedByWheel ==
  lastEvent = "mouseWheel" /\ steps > 0 /\ zoom = 1000 * Unit

\* C2: right after the key handler ran for 'r' or 'R', zoom = 1 and
\* center = (-0.5, 0), whatever the drag, zoom, audio and orientation state.
ResetRestoresView ==
  lastEvent \in {"keyPressed r", "keyPressed R"} =>
    zoom = Unit /\ 2 * centerX = -CenterUnit /\ centerY = 0

\* C2 witness: 'R' pressed in the middle of a drag, after zoom had been driven
\* to a clamp.
ResetMidDragAtClamp ==
  /\ lastEvent = "keyPressed R"
  /\ isDragging
  /\ Abs(wheelRun) = MaxWheelRun
  /\ zoom = Unit

\* C3: while dragging, a pointer-move by (dx, dy) pixels since the last
\* recorded pointer position changes center by (-dx/width/zoom,
\* +dy/height/zoom) and leaves zoom alone.  Equality is up to the resolution
\* of the fixed-point representation: one rounding of dx/width and one of the
\* quotient by zoom.
DragMovesCenter ==
  [][(lastEvent' = "mouseDragged" /\ isDragging) =>
       /\ zoom' = zoom
       /\ 2 * Abs((centerX' - centerX) * CanvasWidth * zoom
                  + (mouseX' - lastMouseX) * CenterUnit * Unit)
            <= CanvasWidth * (zoom + Unit)
       /\ 2 * Abs((centerY' - centerY) * CanvasHeight * zoom
                  - (mouseY' - lastMouseY) * CenterUnit * Unit)
            <= CanvasHeight * (zoom + Unit)]_vars

\* C3 witness: a drag has panned the view in both axes at a zoom other than 1.
DraggedAtZoom ==
  /\ lastEvent = "mouseDragged"
  /\ isDragging
  /\ zoom # Unit
  /\ centerX # CenterX0
  /\ centerY # CenterY0

\* C4: micLevel lies in [0, 1] in every reachable state, whatever spectra
\* (bins in 0..255) the analyser delivers frame after frame, from level 0.
LevelInUnitRange == micLevel >= 0 /\ micLevel <= Unit

\* C4 witness: in a sketch that smooths, a run of frames has driven the level
\* above 0.99.
LevelNearTop ==
  /\ sketch # "basic"
  /\ lastEvent = "draw"
  /\ 100 * micLevel > 99 * Unit

\* C5: after every draw frame that set the uniforms while audioInitialized is
\* false, the iteration uniform is the fixed fallback (120, 100 in the basic
\* sketch), the audio uniform is 0 and the zoom uniform is
\* zoom x timeVaryingZoom(time) x gyroZoom, without audio factor.
FallbackWithoutAudio ==
  (lastEvent = "draw" /\ uTime = time /\ ~audioInitialized) =>
    /\ uMaxIterations = (IF sketch = "basic" THEN 100 ELSE 120) * Unit
    /\ uAudioLevel = 0
    /\ uZoom = MulFix(MulFix(zoom, TimeVaryingZoom(sketch, time)),
                      IF sketch = "gyro" THEN GetGyroInfluence.zoomOffset
                                         ELSE Unit)

\* C5 witness: a frame of the gyro sketch rendered after the microphone was
\* denied, at a time where timeVaryingZoom is not 1.
FrameAfterDenial ==
  /\ sketch = "gyro"
  /\ lastEvent = "draw"
  /\ uTime = time
  /\ micDenied /\ ~audioInitialized
  /\ uMaxIterations = 120 * Unit
  /\ uZoom # zoom

\* C6: while the orientation signal is not calibrated or not initialized,
\* getGyroInfluence returns centerOffsetX = 0, centerOffsetY = 0,
\* rotationOffset = 0, zoomOffset = 1, whatever angles are stored.
NoInfluenceUntilCalibrated ==
  (~gyroCalibrated \/ ~gyroInitialized) =>
    GetGyroInfluence = [centerOffsetX |-> 0, centerOffsetY |-> 0,
                        rotationOffset |-> 0, zoomOffset |-> Unit]

\* C6 witness: orientation events have left non-zero smoothed angles and a
\* recalibration has been requested with 'g'.
RecalibrationPending ==
  /\ lastEvent = "keyPressed g"
  /\ gyroInitialized /\ ~gyroCalibrated
  /\ smoothGyroBeta # 0 /\ smoothGyroGamma # 0 /\ smoothGyroAlpha # 0

\* C7: a frame that throws is caught in that frame and the loop goes on: the
\* sketch keeps looping, and under fairness of the frame driver draw frames
\* are executed again and again, whatever number of frames failed.
FramesRecur == [](looping) /\ []<><<LoopFrames>>_vars

\* C7 witness: a frame has failed while the sampler was live, after the clock
\* of the model has run out.
FrameFailedLate ==
  /\ lastEvent = "draw"
  /\ frameError
  /\ audioInitialized
  /\ time = MaxFrames

\* C8 (as claimed): once a microphone request has been denied while the
\* sampler is uninitialized, audioInitialized stays false in every later
\* state.
DenialIsPermanent ==
  [][(micDenied /\ ~audioInitialized) => ~audioInitialized']_vars

\* C8 (amended): a denied request leaves audioInitialized as it was, and
\* audioInitialized becomes true only when a microphone request is granted;
\* after a denial that can be the request of a later pointer-down (or one
\* still pending), and never a wheel, key, frame or orientation event.
OnlyGrantInitializes ==
  [][/\ lastEvent' = "micDenied" => audioInitialized' = audioInitialized
     /\ (~audioInitialized /\ audioInitialized') => lastEvent' = "micGranted"
     /\ audioInitialized => audioInitialized']_vars

\* C8 witness: the request of the setup timer was denied, a pointer-down asked
\* again and that request was granted.
GrantedAfterDenial ==
  /\ lastEvent = "micGranted"
  /\ micDenied
  /\ audioInitialized
  /\ ~audioTimer
  /\ mouseX # 0

\* C10: the loop run for c = (-0.5, 0) with maxIterations <= 200 never leaves
\* by the escape test nor by running out of passes: it ends with iterations >=
\* maxIterations and the fragment is coloured as inside, at every time.
CenterPointStaysInside ==
  (fragC = <<-(Unit \div 2), 0>> /\ uMaxIterations <= 200 * Unit) =>
    /\ fragExit \notin {"escaped", "exhausted", "outside"}
    /\ fragExit \in {"maxed", "inside"} => iterations >= uMaxIterations

\* C10 witness: the loop has ended for c = (-0.5, 0) in a sketch with the
\* moving escape radius, at the time of the smallest radius, after 150 passes
\* with a varying perturbation.
CenterPointShaded ==
  /\ fragC = <<-(Unit \div 2), 0>>
  /\ sketch = "gyro"
  /\ uTime = 982
  /\ fragExit = "inside"
  /\ iterations = 150 * Unit
  /\ fragZ[1] # -366

\* C11: the loop run for c = (2, 2) leaves by the escape test with an
\* iteration count of 0 or 1, right after z has been set to c, at every time
\* and so for every escape radius; it never reaches maxIterations.
FarPointEscapesAtOnce ==
  fragC = <<2 * Unit, 2 * Unit>> =>
    /\ fragExit \notin {"maxed", "exhausted", "inside"}
    /\ fragExit = "running" => (iterations \in {0, Unit} /\ fragI <= 1)
    /\ fragExit = "escaped" => (iterations \in {0, Unit} /\ fragI = 1)

\* C11 witness: the loop has just left by the escape test for c = (2, 2), at
\* the time of the largest escape radius.
FarPointEscaped ==
  /\ fragC = <<2 * Unit, 2 * Unit>>
  /\ sketch # "basic"
  /\ uTime = 327
  /\ EscapeRadius(sketch, uTime) = 5 * Unit
  /\ fragExit = "escaped"
  /\ iterations = Unit

\* C12 (as claimed): every frame that renders gives the renderer the center
\* baseDrift(t) + gyroOffset + view.center, view.center being the center the
\* drags and resets had produced when the frame began (the basic sketch has
\* no drift), so that a pan is still there in the frames that follow it.
CenterUniformKeepsPan ==
  [][(lastEvent' = "draw" /\ uTime' = time' /\ time' # time) =>
       LET drift == IF sketch = "basic" THEN <<0, 0>>
                    ELSE <<DriftX(time'), DriftY(time')>>
           gyro  == IF sketch = "gyro" THEN GetGyroInfluence
                    ELSE [centerOffsetX |-> 0, centerOffsetY |-> 0]
       IN  /\ uCenterX' = drift[1] + gyro.centerOffsetX + centerX
           /\ uCenterY' = drift[2] + gyro.centerOffsetY + centerY]_vars

\* C13 (as claimed): zoom and center change only in drag, wheel and reset
\* events; a draw frame leaves zoom, centerX and centerY as they were.
DrawLeavesView ==
  [][lastEvent' = "draw" =>
       (zoom' = zoom /\ centerX' = centerX /\ centerY' = centerY)]_vars

\* C14: a pending microphone or motion permission request does not block the
\* frames.  In every state with a request pending a frame can run, and under
\* fairness of the frame driver frames run again and again, however long the
\* request stays pending; a frame that renders before audio is
\* initialized uses the defaults (audio level 0, fallback iteration count);
\* once the microphone is granted, every frame that does not fail samples the
\* analyser and gives the new level to the renderer.
PendingNeverBlocks ==
  /\ [](Requesting => ENABLED <<SoundFrames>>_vars)
  /\ []<><<SoundFrames>>_vars
  /\ [][(lastEvent' = "draw" /\ ~frameError' /\ ~audioInitialized) =>
          /\ uAudioLevel' = 0
          /\ uMaxIterations' = (IF sketch = "basic" THEN 100 ELSE 120) * Unit]_vars
  /\ [][(lastEvent' = "draw" /\ ~frameError' /\ audioInitialized) =>
          /\ \E kind \in SpectrumKinds :
               micLevel' = SmoothedLevel(sketch, micLevel, BinLevels[kind])
          /\ uAudioLevel' = micLevel'
          /\ uMaxIterations' = AudioIterations(sketch, TRUE, micLevel')]_vars

\* C14 witness: a frame has sampled the granted microphone and rendered its
\* level while the motion permission request is still pending.
SampledWhileMotionPending ==
  /\ lastEvent = "draw"
  /\ ~frameError
  /\ gyroPending > 0
  /\ audioInitialized
  /\ uAudioLevel > 0
  /\ uMaxIterations > 100 * Unit

\* C15: audioInitialized is false at setup; it changes only from false to
\* true, and only in the step in which a microphone request is granted; no
\* event and no frame sets it back to false.
InitializedOnceForAll ==
  /\ ~audioInitialized
  /\ [][audioInitialized' # audioInitialized =>
          (audioInitialized' /\ lastEvent' = "micGranted" /\ audioPending > 0)]_vars

\* C15 witness: after the grant a second request, made by a pointer-down
\* before the first was answered, has been denied and the flag is still true.
DeniedAfterGrant ==
  /\ lastEvent = "micDenied"
  /\ micDenied
  /\ audioInitialized
  /\ analyser

\* C16: an orientation event (one that carries its three angles) received
\* while the signal is not calibrated stores its raw angles as the baseline and
\* sets calibrated; an event received while calibrated keeps the baseline;
\* every such event sets each smoothed value to 0.9 x the previous smoothed
\* value + 0.1 x (raw - baseline), up to the rounding of the representation;
\* the first event of a fresh session leaves the three smoothed values at 0.
\* An event with a null angle changes nothing.
CalibratesThenSmooths ==
  [][/\ lastEvent' = "deviceorientation" =>
          /\ gyroCalibrated'
          /\ ~gyroCalibrated =>
               /\ gyroBaseAlpha' = gyroAlpha'
               /\ gyroBaseBeta' = gyroBeta'
               /\ gyroBaseGamma' = gyroGamma'
          /\ gyroCalibrated =>
               /\ gyroBaseAlpha' = gyroBaseAlpha
               /\ gyroBaseBeta' = gyroBaseBeta
               /\ gyroBaseGamma' = gyroBaseGamma
          /\ 2 * Abs(10 * smoothGyroAlpha'
                     - (9 * smoothGyroAlpha + gyroAlpha' - gyroBaseAlpha')) <= 10
          /\ 2 * Abs(10 * smoothGyroBeta'
                     - (9 * smoothGyroBeta + gyroBeta' - gyroBaseBeta')) <= 10
          /\ 2 * Abs(10 * smoothGyroGamma'
                     - (9 * smoothGyroGamma + gyroGamma' - gyroBaseGamma')) <= 10
          /\ gyroCalibrations = 0 =>
               /\ smoothGyroAlpha' = 0
               /\ smoothGyroBeta' = 0
               /\ smoothGyroGamma' = 0
     /\ lastEvent' = "deviceorientation (null)" => UNCHANGED gyroVars]_vars

\* C16 witness: an event after the calibrating one, with angles away from a
\* non-zero baseline, has moved the three smoothed values.
SmoothedAfterCalibration ==
  /\ lastEvent = "deviceorientation"
  /\ gyroCalibrated
  /\ gyroCalibrations = 1
  /\ gyroBaseAlpha # 0 /\ gyroBaseBeta # 0 /\ gyroBaseGamma # 0
  /\ gyroBeta # gyroBaseBeta
  /\ smoothGyroAlpha # 0 /\ smoothGyroBeta # 0 /\ smoothGyroGamma # 0

\* C17: 'g' or 'G' pressed on a mobile session of the gyro sketch with the
\* gyroscope enabled leaves the calibration flag false; the flag then stays
\* false until an orientation event arrives, and that event sets it again
\* and makes its own raw angles the baseline.
RecalibrateKeyRebaselines ==
  [][/\ ( /\ lastEvent' \in {KeyEvent("g"), KeyEvent("G")}
          /\ sketch = "gyro" /\ isMobile /\ gyroInitialized ) => ~gyroCalibrated'
     /\ (~gyroCalibrated /\ gyroCalibrated') => lastEvent' = "deviceorientation"
     /\ (~gyroCalibrated /\ lastEvent' = "deviceorientation") =>
          /\ gyroCalibrated'
          /\ gyroBaseAlpha' = gyroAlpha'
          /\ gyroBaseBeta' = gyroBeta'
          /\ gyroBaseGamma' = gyroGamma']_vars

\* C17 witness: a second calibration, which only a recalibrate key between
\* two orientation events can cause, has taken a non-zero baseline.
RebaselinedAfterKey ==
  /\ gyroCalibrations = 2
  /\ gyroCalibrated
  /\ lastEvent = "deviceorientation"
  /\ gyroBaseBeta = gyroBeta
  /\ gyroBaseBeta # 0

\* C18 (as claimed): every wheel event multiplies zoom by the factor of its
\* direction and clamps it, and the wheel handler returns false for it.
WheelZoomsAndSuppresses ==
  [][lastEvent' = "mouseWheel" =>
       /\ wheelReturn' = "false"
       /\ \E delta \in WheelDeltas : zoom' = WheelZoom(sketch, zoom, delta)]_vars

\* C19: in the gyro sketch, in every reachable state in which
\* audioInitialized is true, the analyser exists and dataArray is allocated
\* with 128 bins, whatever the interleaving of frames, pointer events and
\* completions of the initAudio calls of the setup timer and of the clicks.
InitializedHasBuffer ==
  (sketch = "gyro" /\ audioInitialized) =>
    (analyser /\ dataArrayLength = 128)

\* C19 witness: a frame of the gyro sketch has sampled the buffer after one
\* initAudio call completed while a second one is still awaiting its answer.
SampledBetweenCompletions ==
  /\ sketch = "gyro"
  /\ lastEvent = "draw" /\ ~frameError
  /\ audioInitialized /\ audioPending > 0
  /\ micLevel > 0

\* C20 (as claimed): at most one initAudio call awaits getUserMedia at any
\* time, and the audio pipeline is built at most once in a session: no
\* initAudio call resumes with a stream once an analyser exists.
SingleRequestSinglePipeline ==
  /\ [](audioPending <= 1)
  /\ [][lastEvent' = "micGranted" => ~analyser]_vars

\* C21: after every draw frame the maxIterations uniform lies in [100, 150]
\* in the gyro and flowing sketches and in [80, 200] in the basic sketch, hence
\* never above the 200 passes of the shader's loop; the loop therefore never
\* runs out of passes, a fragment that leaves it by the iteration test has
\* iterations >= maxIterations, and that fragment is coloured as inside.
IterationsWithinHardCap ==
  /\ []((lastEvent = "draw" /\ ~frameError) =>
          /\ uMaxIterations <= 200 * Unit
          /\ sketch = "basic" =>
               (80 * Unit <= uMaxIterations /\ uMaxIterations <= 200 * Unit)
          /\ sketch # "basic" =>
               (100 * Unit <= uMaxIterations /\ uMaxIterations <= 150 * Unit))
  /\ [](fragExit # "exhausted")
  /\ [](fragExit = "maxed" => iterations >= uMaxIterations)
  /\ [][fragExit = "maxed" => fragExit' = "inside"]_vars

\* C21 witness: in the basic sketch in a loud room the uniform is 200, the
\* loop for c = (-0.5, 0) has used its 200th and last pass and the fragment
\* is coloured as inside.
ShadedAtHardCap ==
  /\ sketch = "basic"
  /\ uMaxIterations = 200 * Unit
  /\ fragC = <<-(Unit \div 2), 0>>
  /\ fragI = 199
  /\ iterations = 200 * Unit
  /\ fragExit = "inside"

\* C22: in the gyro sketch on a device classified as mobile, isDragging is
\* false and zoom is 1 in every reachable state, no wheel event changes zoom
\* and no pointer event (down, move, up) changes center.
MobileGyroViewFixed ==
  /\ []((sketch = "gyro" /\ isMobile) => (~isDragging /\ zoom = Unit))
  /\ [][(sketch = "gyro" /\ isMobile /\ lastEvent' = "mouseWheel") =>
          zoom' = zoom]_vars
  /\ [][( /\ sketch = "gyro" /\ isMobile
          /\ lastEvent' \in {"mousePressed", "mouseDragged", "mouseReleased"} ) =>
          (centerX' = centerX /\ centerY' = centerY)]_vars

\* C22 witness: on a mobile session of the gyro sketch, after a run of wheel
\* events and a pointer-down, the pointer has moved away from where it went
\* down.
MobilePointerMoved ==
  /\ sketch = "gyro" /\ isMobile
  /\ wheelRun # 0
  /\ audioPending > 0
  /\ lastEvent = "mouseDragged"
  /\ mouseX # 0

\* C9 (as claimed): on desktop every pointer-down starts a drag whether or not
\* audio is initialized, every pointer-up ends it, and a pointer-move changes
\* center only while dragging.
PointerStateMachine ==
  [][/\ (lastEvent' = "mousePressed" /\ ~isMobile) => isDragging'
     /\ lastEvent' = "mouseReleased" => ~isDragging'
     /\ (lastEvent' = "mouseDragged" /\ ~isDragging) =>
          (centerX' = centerX /\ centerY' = centerY)]_vars

====
